---------------------------- MODULE Spec2Model ----------------------------
(***************************************************************************)
(* py-flask-api: the POST /analyze handler of app.py and the metrics       *)
(* routine analyze_audio_metrics of wpm.py.                                *)
(*                                                                         *)
(* Two specifications share the pure operators of the metrics routine:     *)
(*   Spec    the Flask handler run by concurrent request threads over a    *)
(*           shared file system;                                           *)
(*   SpecME  one call of analyze_audio_metrics, its inputs drawn from      *)
(*           bounded sets, stepped statement by statement.                 *)
(*                                                                         *)
(* Python floats are IEEE-754 binary64.  They are modelled exactly: a      *)
(* significand of 53 bits held as a natural number in limbs, an exponent,  *)
(* and round-to-nearest-even after every operation.                        *)
(***************************************************************************)
EXTENDS Integers, Sequences, FiniteSets, TLC

(***************************************************************************)
(* Natural numbers of any size: little-endian sequences of limbs, no       *)
(* high zero limb, <<>> for zero.                                          *)
(***************************************************************************)
Base == 2^15

LimbBits == 15

MantBits == 53

RECURSIVE BNorm(_)
BNorm(a) ==
    IF a = <<>> THEN <<>>
    ELSE IF a[Len(a)] = 0 THEN BNorm(SubSeq(a, 1, Len(a) - 1))
    ELSE a

RECURSIVE BFromInt(_)
BFromInt(n) ==
    IF n = 0 THEN <<>> ELSE <<n % Base>> \o BFromInt(n \div Base)

RECURSIVE BToInt(_)
BToInt(a) ==
    IF a = <<>> THEN 0 ELSE Head(a) + Base * BToInt(Tail(a))

RECURSIVE BCmpAt(_, _, _)
BCmpAt(a, b, i) ==
    IF i = 0 THEN 0
    ELSE IF a[i] > b[i] THEN 1
    ELSE IF a[i] < b[i] THEN -1
    ELSE BCmpAt(a, b, i - 1)

BCmp(a, b) ==
    IF Len(a) > Len(b) THEN 1
    ELSE IF Len(a) < Len(b) THEN -1
    ELSE BCmpAt(a, b, Len(a))

RECURSIVE BAddC(_, _, _)
BAddC(a, b, c) ==
    IF a = <<>> /\ b = <<>> THEN (IF c = 0 THEN <<>> ELSE <<c>>)
    ELSE LET x == IF a = <<>> THEN 0 ELSE Head(a)
             y == IF b = <<>> THEN 0 ELSE Head(b)
             s == x + y + c
         IN  <<s % Base>> \o BAddC(IF a = <<>> THEN <<>> ELSE Tail(a),
                                   IF b = <<>> THEN <<>> ELSE Tail(b),
                                   s \div Base)

BAdd(a, b) == BAddC(a, b, 0)

RECURSIVE BSubB(_, _, _)
BSubB(a, b, c) ==
    IF a = <<>> THEN <<>>
    ELSE LET y == IF b = <<>> THEN 0 ELSE Head(b)
             d == Head(a) - y - c
         IN  <<IF d < 0 THEN d + Base ELSE d>>
                 \o BSubB(Tail(a), IF b = <<>> THEN <<>> ELSE Tail(b),
                          IF d < 0 THEN 1 ELSE 0)

\* a - b for a >= b
BSub(a, b) == BNorm(BSubB(a, b, 0))

RECURSIVE BMulSmallC(_, _, _)
BMulSmallC(a, k, c) ==
    IF a = <<>> THEN (IF c = 0 THEN <<>> ELSE <<c>>)
    ELSE LET p == Head(a) * k + c
         IN  <<p % Base>> \o BMulSmallC(Tail(a), k, p \div Base)

\* a * k for 0 <= k < Base
BMulSmall(a, k) == BNorm(BMulSmallC(a, k, 0))

RECURSIVE BMul(_, _)
BMul(a, b) ==
    IF b = <<>> \/ a = <<>> THEN <<>>
    ELSE BAdd(BMulSmall(a, Head(b)),
              LET t == BMul(a, Tail(b)) IN IF t = <<>> THEN <<>> ELSE <<0>> \o t)

\* a * 2^n
BShl(a, n) ==
    IF a = <<>> THEN <<>>
    ELSE [i \in 1..(n \div LimbBits) |-> 0] \o BMulSmall(a, 2^(n % LimbBits))

RECURSIVE BDivSmallR(_, _, _, _)
BDivSmallR(a, k, i, r) ==
    IF i = 0 THEN <<>>
    ELSE LET cur == r * Base + a[i]
         IN  BDivSmallR(a, k, i - 1, cur % k) \o <<cur \div k>>

\* floor(a / k) for 0 < k <= Base
BDivSmall(a, k) == BNorm(BDivSmallR(a, k, Len(a), 0))

\* floor(a / 2^n)
BShr(a, n) ==
    IF n \div LimbBits >= Len(a) THEN <<>>
    ELSE BDivSmall(SubSeq(a, (n \div LimbBits) + 1, Len(a)), 2^(n % LimbBits))

RECURSIVE IntBitLen(_)
IntBitLen(n) == IF n = 0 THEN 0 ELSE 1 + IntBitLen(n \div 2)

BBitLen(a) ==
    IF a = <<>> THEN 0 ELSE (Len(a) - 1) * LimbBits + IntBitLen(a[Len(a)])

\* bit i (from 0) of a
BBit(a, i) ==
    IF (i \div LimbBits) + 1 > Len(a) THEN 0
    ELSE (a[(i \div LimbBits) + 1] \div 2^(i % LimbBits)) % 2

RECURSIVE BQDigit(_, _, _, _)
\* the largest d in lo..hi with d * b <= cur, given lo * b <= cur
BQDigit(cur, b, lo, hi) ==
    IF lo = hi THEN lo
    ELSE LET mid == (lo + hi + 1) \div 2
         IN  IF BCmp(BMulSmall(b, mid), cur) <= 0
             THEN BQDigit(cur, b, mid, hi)
             ELSE BQDigit(cur, b, lo, mid - 1)

RECURSIVE BDivModR(_, _, _, _)
BDivModR(a, b, i, r) ==
    IF i = 0 THEN <<<<>>, r>>
    ELSE LET cur  == BNorm(<<a[i]>> \o r)
             d    == BQDigit(cur, b, 0, Base - 1)
             r1   == BSub(cur, BMulSmall(b, d))
         IN  IF r1 = <<>> /\ i = 1 THEN <<<<d>>, <<>>>>
             ELSE LET rest == BDivModR(a, b, i - 1, r1)
                  IN  <<rest[1] \o <<d>>, rest[2]>>

\* <<floor(a / b), a mod b>> for b > 0, by long division limb by limb
BDivMod(a, b) ==
    LET x == BDivModR(a, b, Len(a), <<>>) IN <<BNorm(x[1]), x[2]>>

(***************************************************************************)
(* binary64 values: sgn * m * 2^e with m of exactly 53 bits, or zero.      *)
(* The values of the model stay far from the subnormal and overflow        *)
(* ranges, which are not represented.                                      *)
(***************************************************************************)
FZero == [sgn |-> 0, m |-> <<>>, e |-> 0]

\* sgn * p * 2^e (and a nonzero remainder below p's last bit when sticky),
\* rounded to nearest, ties to even
RoundPack(sgn, p, e, sticky) ==
    LET L == BBitLen(p) IN
    IF p = <<>> THEN FZero
    ELSE IF L <= MantBits
    THEN [sgn |-> sgn, m |-> BShl(p, MantBits - L), e |-> e - (MantBits - L)]
    ELSE LET k    == L - MantBits
             q    == BShr(p, k)
             rem  == BSub(p, BShl(q, k))
             half == BShl(<<1>>, k - 1)
             c    == BCmp(rem, half)
             up   == c > 0 \/ (c = 0 /\ (sticky \/ BBit(q, 0) = 1))
             q1   == IF up THEN BAdd(q, <<1>>) ELSE q
         IN  IF BBitLen(q1) > MantBits
             THEN [sgn |-> sgn, m |-> BShr(q1, 1), e |-> e + k + 1]
             ELSE [sgn |-> sgn, m |-> q1, e |-> e + k]

\* float(n) for a Python int n
FFromInt(n) ==
    IF n = 0 THEN FZero
    ELSE RoundPack(IF n < 0 THEN -1 ELSE 1, BFromInt(IF n < 0 THEN -n ELSE n), 0, FALSE)

FNeg(x) == [x EXCEPT !.sgn = -x.sgn]

\* x + y
FAdd(x, y) ==
    IF x.sgn = 0 THEN y
    ELSE IF y.sgn = 0 THEN x
    ELSE LET e0 == IF x.e < y.e THEN x.e ELSE y.e
             X  == BShl(x.m, x.e - e0)
             Y  == BShl(y.m, y.e - e0)
             c  == BCmp(X, Y)
         IN  IF x.sgn = y.sgn THEN RoundPack(x.sgn, BAdd(X, Y), e0, FALSE)
             ELSE IF c = 0 THEN FZero
             ELSE IF c > 0 THEN RoundPack(x.sgn, BSub(X, Y), e0, FALSE)
             ELSE RoundPack(y.sgn, BSub(Y, X), e0, FALSE)

\* x - y
FSub(x, y) == FAdd(x, FNeg(y))

\* x * y
FMul(x, y) ==
    IF x.sgn = 0 \/ y.sgn = 0 THEN FZero
    ELSE RoundPack(x.sgn * y.sgn, BMul(x.m, y.m), x.e + y.e, FALSE)

\* x / y
FDiv(x, y) ==
    IF y.sgn = 0 THEN "ZeroDivisionError"
    ELSE IF x.sgn = 0 THEN FZero
    ELSE LET qr == BDivMod(BShl(x.m, MantBits + 3), y.m)
         IN  RoundPack(x.sgn * y.sgn, qr[1], x.e - y.e - (MantBits + 3),
                       qr[2] # <<>>)

\* math.floor(x)
FFloor(x) ==
    IF x.sgn = 0 THEN 0
    ELSE IF x.e >= 0 THEN x.sgn * BToInt(BShl(x.m, x.e))
    ELSE LET q     == BShr(x.m, -x.e)
             exact == BShl(q, -x.e) = x.m
         IN  IF x.sgn > 0 THEN BToInt(q)
             ELSE IF exact THEN -BToInt(q) ELSE -(BToInt(q) + 1)

\* floor(n / x) in the real numbers, for an integer n and a float x > 0
ExactFloorDiv(n, x) ==
    LET a  == BFromInt(IF n < 0 THEN -n ELSE n)
        nu == IF x.e < 0 THEN BShl(a, -x.e) ELSE a
        de == IF x.e < 0 THEN x.m ELSE BShl(x.m, x.e)
        qr == BDivMod(nu, de)
    IN  IF n >= 0 THEN BToInt(qr[1])
        ELSE IF qr[2] = <<>> THEN -BToInt(qr[1]) ELSE -(BToInt(qr[1]) + 1)

(***************************************************************************)
(* Text: a Python str is a sequence of one-character strings.              *)
(***************************************************************************)
UpperLetters ==
    <<"A","B","C","D","E","F","G","H","I","J","K","L","M",
      "N","O","P","Q","R","S","T","U","V","W","X","Y","Z">>

LowerLetters ==
    <<"a","b","c","d","e","f","g","h","i","j","k","l","m",
      "n","o","p","q","r","s","t","u","v","w","x","y","z">>

Digits == {"0","1","2","3","4","5","6","7","8","9"}

Range(f) == {f[i] : i \in DOMAIN f}

\* str.lower() on one character
CharLower(c) ==
    IF \E i \in DOMAIN UpperLetters : UpperLetters[i] = c
    THEN LowerLetters[CHOOSE i \in DOMAIN UpperLetters : UpperLetters[i] = c]
    ELSE c

\* str.lower()
StrLower(s) == [i \in 1..Len(s) |-> CharLower(s[i])]

\* the class \w of Python's re on the characters of the model
IsWordChar(c) ==
    c \in Range(UpperLetters) \cup Range(LowerLetters) \cup Digits \cup {"_"}

IsWordAt(s, k) == k \in 1..Len(s) /\ IsWordChar(s[k])

\* \b just before position p of s (p = Len(s) + 1: at the end)
WordBoundary(s, p) == IsWordAt(s, p - 1) # IsWordAt(s, p)

RECURSIVE WordEnd(_, _)
\* the last position of the run of word characters that starts at i
WordEnd(s, i) == IF IsWordAt(s, i + 1) THEN WordEnd(s, i + 1) ELSE i

RECURSIVE FindallWordsFrom(_, _)
FindallWordsFrom(s, i) ==
    IF i > Len(s) THEN <<>>
    ELSE IF ~IsWordChar(s[i]) THEN FindallWordsFrom(s, i + 1)
    ELSE LET j == WordEnd(s, i)
         IN  <<SubSeq(s, i, j)>> \o FindallWordsFrom(s, j + 1)

\* re.findall(r"\w+", s)
FindallWords(s) == FindallWordsFrom(s, 1)

\* the pattern without its \b anchors: a filler matches inside a longer word
FillerMatchAt_NoBoundary(filler, s, i) ==
    /\ i + Len(filler) - 1 <= Len(s)
    /\ \A k \in 1..Len(filler) : s[i + k - 1] = filler[k]

\* r'\b' + re.escape(filler) + r'\b' matches s at position i
FillerMatchAt(filler, s, i) ==
    /\ i + Len(filler) - 1 <= Len(s)
    /\ \A k \in 1..Len(filler) : s[i + k - 1] = filler[k]
    /\ WordBoundary(s, i)
    /\ WordBoundary(s, i + Len(filler))

RECURSIVE FindallFillerFrom(_, _, _)
\* len(re.findall(pattern, s)): leftmost matches, none overlapping another
FindallFillerFrom(filler, s, i) ==
    IF i > Len(s) THEN 0
    ELSE IF FillerMatchAt(filler, s, i)
    THEN 1 + FindallFillerFrom(filler, s, i + Len(filler))
    ELSE FindallFillerFrom(filler, s, i + 1)

RECURSIVE CountFillers(_, _, _)
\* the loop over filler_list, from its k-th phrase on
CountFillers(filler_list, transcript, k) ==
    IF k > Len(filler_list) THEN 0
    ELSE FindallFillerFrom(filler_list[k], StrLower(transcript), 1)
             + CountFillers(filler_list, transcript, k + 1)

RECURSIVE Repeat(_, _)
Repeat(s, n) == IF n = 0 THEN <<>> ELSE s \o Repeat(s, n - 1)

(***************************************************************************)
(* analyze_audio_metrics: parameters and statements.                       *)
(***************************************************************************)
MinSilenceLen == 500

DefaultFillerList ==
    << <<"u","m">>, <<"u","h">>, <<"e","r">>, <<"a","h">>,
       <<"l","i","k","e">>, <<"y","o","u"," ","k","n","o","w">> >>

\* the literal 0.3
FillerAvgDuration == FDiv(FFromInt(3), FFromInt(10))

LoadErrorResult == [kind |-> "str", text |-> "Error loading audio file"]

NoResult == [kind |-> "none"]

RECURSIVE SumRanges(_, _)
SumRanges(ranges, k) ==
    IF k > Len(ranges) THEN 0
    ELSE (ranges[k][2] - ranges[k][1]) + SumRanges(ranges, k + 1)

\* sum((end - start) for start, end in silence_ranges) / 1000.0
TotalSilenceDuration(ranges) == FDiv(FFromInt(SumRanges(ranges, 1)), FFromInt(1000))

RequestErrorPrefix ==
    <<"R","e","q","u","e","s","t"," ","e","r","r","o","r",":"," ">>

\* the transcript after the try/except around the recognizer
TranscriptOf(speech) ==
    IF speech.kind = "ok" THEN speech.text
    ELSE IF speech.kind = "UnknownValueError" THEN <<>>
    ELSE RequestErrorPrefix \o speech.detail

ActualSpeakingDuration(speaking, filler_duration) ==
    LET d == FSub(speaking, filler_duration)
    IN  IF d.sgn < 0 THEN FZero ELSE d

\* x / 60.0 if x > 0 else 0
Minutes(x) == IF x.sgn > 0 THEN FDiv(x, FFromInt(60)) ELSE FZero

\* math.floor(n / minutes) if minutes > 0 else 0
Rate(n, minutes) ==
    IF minutes.sgn > 0 THEN FFloor(FDiv(FFromInt(n), minutes)) ELSE 0

\* the statements after the transcript is known, and the returned dict
Metrics(total, ranges, silence, speaking, text, words, fillers, avg) ==
    LET filler_duration == FMul(FFromInt(fillers), avg)
        actual          == ActualSpeakingDuration(speaking, filler_duration)
    IN  [kind |-> "dict",
         total_duration_sec |-> total,
         total_silence_duration_sec |-> silence,
         speaking_time_sec_excluding_pauses |-> speaking,
         transcript |-> text,
         total_word_count |-> words,
         filler_count |-> fillers,
         estimated_filler_duration_sec |-> filler_duration,
         actual_speaking_duration_sec_excluding_fillers |-> actual,
         rate_including_fillers_wpm |-> Rate(words, Minutes(speaking)),
         rate_excluding_fillers_wpm |-> Rate(words - fillers, Minutes(actual)),
         silence_ranges_ms |-> ranges]

(***************************************************************************)
(* Inputs of the model.                                                    *)
(***************************************************************************)
MaxPieces == 3

NumRequests == 2

Pieces == { <<"u","m">>, <<"L","i","k","e">>, <<" ">>, <<"y","o","u">>, <<"k","n","o","w">>, <<"b">> }

RECURSIVE PieceStrings(_)
\* every concatenation of at most n pieces
PieceStrings(n) ==
    IF n = 0 THEN {<<>>}
    ELSE LET shorter == PieceStrings(n - 1)
         IN  shorter \cup {t \o q : t \in shorter, q \in Pieces}

TUmbrella == <<"u","m","b","r","e","l","l","a"," ","i","s"," ","n","i","c","e">>

TUmILikeIt == <<"u","m",","," ","I"," ","l","i","k","e"," ","i","t">>

THelloWorld == <<"h","e","l","l","o"," ","w","o","r","l","d">>

TYouKnow == <<"y","o","u"," ","k","n","o","w">>

TUm == <<"u","m">>

TManyWords == Repeat(<<"b"," ">>, 23)

NamedTranscripts ==
    {<<>>, TUmbrella, TUmILikeIt, THelloWorld, TYouKnow, TUm, TManyWords}

Recognized(t) == [kind |-> "ok", text |-> t, detail |-> <<>>]

NoSpeech == [kind |-> "UnknownValueError", text |-> <<>>, detail |-> <<>>]

ServiceDown(d) == [kind |-> "RequestError", text |-> <<>>, detail |-> d]

ErrorDetails == {<<>>, <<"f","a","i","l","e","d">>}

NamedSpeech ==
    {Recognized(t) : t \in NamedTranscripts}
        \cup {NoSpeech} \cup {ServiceDown(d) : d \in ErrorDetails}

\* whole seconds of audio
Durations == {0, 1, 3, 10, 23}

\* what detect_silence may return: ranges in ms, ordered, none overlapping,
\* each at least min_silence_len long
SilenceLists ==
    { ranges \in { <<>>, <<<<1000, 2000>>>>, <<<<0, 500>>, <<3000, 5500>>>>,
                   <<<<0, 10000>>>> } :
        /\ \A k \in DOMAIN ranges :
               ranges[k][1] >= 0 /\ ranges[k][2] - ranges[k][1] >= MinSilenceLen
        /\ \A k \in DOMAIN ranges :
               k > 1 => ranges[k - 1][2] <= ranges[k][1] }

\* filler_list arguments: the default (None) and caller-supplied ones
Lexicons ==
    { DefaultFillerList,
      << <<"u","m">>, <<"u","m">> >>,
      << <<"y","o","u"," ","k","n","o","w">>, <<"y","o","u">> >>,
      << <<"U","m">> >> }

SweepLexicons == { DefaultFillerList, << <<"y","o","u"," ","k","n","o","w">>, <<"y","o","u">> >> }

Clip(ok, d, ranges, speech) ==
    [decodable |-> ok, duration |-> d, silence |-> ranges, speech |-> speech]

Reqs == 1..NumRequests

\* what request r uploads when its form holds decodable audio; r = 1 is the
\* ten-second clip with one second of silence and "hello world"
ClipOf(r) ==
    Clip(TRUE, 9 + r, <<<<1000, 2000>>>>,
         Recognized(IF r = 1 THEN THelloWorld ELSE TUmILikeIt))

\* analyze_audio_metrics(path) with its defaults, when the first read of the
\* path (AudioSegment.from_file) sees the audio of request a and the second
\* (sr.AudioFile) that of request b
AnalyzeAudioMetrics(a, b) ==
    LET total    == FFromInt(ClipOf(a).duration)
        ranges   == ClipOf(a).silence
        silence  == TotalSilenceDuration(ranges)
        speaking == FSub(total, silence)
        text     == TranscriptOf(ClipOf(b).speech)
    IN  Metrics(total, ranges, silence, speaking, text,
                Len(FindallWords(StrLower(text))),
                CountFillers(DefaultFillerList, text, 1),
                FillerAvgDuration)

\* analyze_audio_metrics is a function of what its two reads see
ResultTable == [a \in Reqs |-> [b \in Reqs |-> AnalyzeAudioMetrics(a, b)]]

\* os.path.join(UPLOAD_FOLDER, f"{uuid.uuid4()}_{file.filename}"): the uuid4
\* of a request is its own, so the request stands for it
UploadPath(r) == [dir |-> "uploads", uuid |-> r, name |-> "upload"]

\* wav_filepath = "myWav.wav"
WavPath(r) == [dir |-> ".", uuid |-> 0, name |-> "myWav.wav"]

Paths == {UploadPath(r) : r \in Reqs} \cup {WavPath(r) : r \in Reqs}

\* a file: whose audio it holds, what it holds, and every request that has
\* written into it since it was created
File(o, k, w) == [owner |-> o, kind |-> k, writers |-> w]

NoFile == File(0, "absent", {})

Exists(fs, path) == fs[path] # NoFile

\* the checks without the test of the filename
ValidationError_NoFilenameCheck(f) ==
    IF f = "nofile" THEN "No file part in the request" ELSE ""

\* the first two checks of analyze(): the message of the 400 reply, or ""
ValidationError(f) ==
    IF f = "nofile" THEN "No file part in the request"
    ELSE IF f = "emptyname" THEN "No file selected"
    ELSE ""

\* the cleanup of the except clause without the waveform
ShouldRemoveWav_OnlyOnSuccess(failed, bound, present) ==
    ~failed /\ present

\* the guard of os.remove(wav_filepath): in the except clause the name must
\* be bound, on both paths the path must exist
ShouldRemoveWav(failed, bound, present) ==
    IF failed THEN bound /\ present ELSE present

JsonError(msg) == [kind |-> "json", error |-> msg]

\* Flask's reply to an exception that leaves the view function
InternalServerError == [kind |-> "html", error |-> "Internal Server Error"]

VARIABLES
    \* analyze(), one per request thread
    pc, form, audio, wav_bound, loaded, result, exc, status, body,
    \* the file system, and who has written, read or removed each path
    disk, touched,
    \* what analyze_audio_metrics returns, by the audio its two reads see
    metrics,
    \* analyze_audio_metrics
    mpc, in_clip, filler_list, total_duration_sec, silence_ranges,
    total_silence_duration_sec, speaking_time_sec, transcript,
    total_word_count, filler_count, me_result

hVars ==
    <<pc, form, audio, wav_bound, loaded, result, exc, status, body,
      disk, touched, metrics>>

meVars ==
    <<mpc, in_clip, filler_list, total_duration_sec, silence_ranges,
      total_silence_duration_sec, speaking_time_sec, transcript,
      total_word_count, filler_count, me_result>>

vars == <<hVars, meVars>>

MELocalsUnset ==
    /\ total_duration_sec = FZero
    /\ silence_ranges = <<>>
    /\ total_silence_duration_sec = FZero
    /\ speaking_time_sec = FZero
    /\ transcript = <<>>
    /\ total_word_count = 0
    /\ filler_count = 0
    /\ me_result = NoResult

\* no request is being served
HIdle ==
    /\ metrics = <<>>
    /\ pc = [r \in Reqs |-> "idle"]
    /\ form = [r \in Reqs |-> "nofile"]
    /\ audio = [r \in Reqs |-> 0]
    /\ wav_bound = [r \in Reqs |-> FALSE]
    /\ loaded = [r \in Reqs |-> 0]
    /\ result = [r \in Reqs |-> NoResult]
    /\ exc = [r \in Reqs |-> ""]
    /\ status = [r \in Reqs |-> 0]
    /\ body = [r \in Reqs |-> NoResult]
    /\ disk = [q \in Paths |-> NoFile]
    /\ touched = [q \in Paths |-> {}]

MEInit ==
    /\ HIdle
    /\ mpc = "start"
    /\ \/ /\ in_clip \in {Clip(TRUE, 10, <<<<1000, 2000>>>>, Recognized(t)) :
                             t \in PieceStrings(MaxPieces)}
          /\ filler_list \in SweepLexicons
       \/ /\ in_clip \in {Clip(ok, d, ranges, speech) :
                             ok \in BOOLEAN, d \in Durations,
                             ranges \in SilenceLists, speech \in NamedSpeech}
          /\ filler_list \in Lexicons
    /\ MELocalsUnset

\* wpm.py 23-29: the file does not load, and the error text is returned
MELoadFails ==
    /\ mpc = "start"
    /\ ~in_clip.decodable
    /\ me_result' = LoadErrorResult
    /\ mpc' = "done"
    /\ UNCHANGED <<hVars, in_clip, filler_list, total_duration_sec, silence_ranges,
                   total_silence_duration_sec, speaking_time_sec, transcript,
                   total_word_count, filler_count>>

\* wpm.py 23-29
MELoad ==
    /\ mpc = "start"
    /\ in_clip.decodable
    /\ total_duration_sec' = FFromInt(in_clip.duration)
    /\ mpc' = "loaded"
    /\ UNCHANGED <<hVars, in_clip, filler_list, silence_ranges,
                   total_silence_duration_sec, speaking_time_sec, transcript,
                   total_word_count, filler_count, me_result>>

\* wpm.py 31-39
MEDetectSilence ==
    /\ mpc = "loaded"
    /\ silence_ranges' = in_clip.silence
    /\ total_silence_duration_sec' = TotalSilenceDuration(in_clip.silence)
    /\ speaking_time_sec' =
           FSub(total_duration_sec, TotalSilenceDuration(in_clip.silence))
    /\ mpc' = "silence"
    /\ UNCHANGED <<hVars, in_clip, filler_list, total_duration_sec, transcript,
                   total_word_count, filler_count, me_result>>

\* wpm.py 41-51
METranscribe ==
    /\ mpc = "silence"
    /\ transcript' = TranscriptOf(in_clip.speech)
    /\ mpc' = "transcribed"
    /\ UNCHANGED <<hVars, in_clip, filler_list, total_duration_sec, silence_ranges,
                   total_silence_duration_sec, speaking_time_sec,
                   total_word_count, filler_count, me_result>>

\* wpm.py 53-60
MECount ==
    /\ mpc = "transcribed"
    /\ total_word_count' = Len(FindallWords(StrLower(transcript)))
    /\ filler_count' = CountFillers(filler_list, transcript, 1)
    /\ mpc' = "counted"
    /\ UNCHANGED <<hVars, in_clip, filler_list, total_duration_sec, silence_ranges,
                   total_silence_duration_sec, speaking_time_sec, transcript,
                   me_result>>

\* wpm.py 62-89
MERates ==
    /\ mpc = "counted"
    /\ me_result' = Metrics(total_duration_sec, silence_ranges,
                            total_silence_duration_sec, speaking_time_sec,
                            transcript, total_word_count, filler_count,
                            FillerAvgDuration)
    /\ mpc' = "done"
    /\ UNCHANGED <<hVars, in_clip, filler_list, total_duration_sec, silence_ranges,
                   total_silence_duration_sec, speaking_time_sec, transcript,
                   total_word_count, filler_count>>

MENext ==
    \/ MELoadFails
    \/ MELoad
    \/ MEDetectSilence
    \/ METranscribe
    \/ MECount
    \/ MERates

SpecME == MEInit /\ [][MENext]_vars

(***************************************************************************)
(* app.py: analyze(), the view function of POST /analyze.  Flask's         *)
(* development server serves each request on a thread of its own, so the   *)
(* steps of different requests interleave; every step below holds at most  *)
(* one access to a path another request can reach.                         *)
(***************************************************************************)
Forms == {"nofile", "emptyname", "audio", "garbage"}

\* analyze_audio_metrics is not running
MEIdle ==
    /\ mpc = "idle"
    /\ in_clip = Clip(FALSE, 0, <<>>, NoSpeech)
    /\ filler_list = DefaultFillerList
    /\ MELocalsUnset

Init ==
    /\ metrics = ResultTable
    /\ pc = [r \in Reqs |-> "start"]
    /\ form \in [Reqs -> Forms]
    /\ audio = [r \in Reqs |-> 0]
    /\ wav_bound = [r \in Reqs |-> FALSE]
    /\ loaded = [r \in Reqs |-> 0]
    /\ result = [r \in Reqs |-> NoResult]
    /\ exc = [r \in Reqs |-> ""]
    /\ status = [r \in Reqs |-> 0]
    /\ body = [r \in Reqs |-> NoResult]
    /\ disk = [q \in Paths |-> NoFile]
    /\ touched = [q \in Paths |-> {}]
    /\ MEIdle

Touch(path, r) == [touched EXCEPT ![path] = @ \cup {r}]

\* the return statements of analyze(): 500 with the message in the except
\* clause, 200 with the result after the cleanup
Respond(r) ==
    /\ pc' = [pc EXCEPT ![r] = "done"]
    /\ status' = [status EXCEPT ![r] = IF exc[r] # "" THEN 500 ELSE 200]
    /\ body' = [body EXCEPT ![r] =
                   IF exc[r] # "" THEN JsonError(exc[r]) ELSE result[r]]

\* app.py 16-22
Reject(r) ==
    /\ pc[r] = "start"
    /\ ValidationError(form[r]) # ""
    /\ pc' = [pc EXCEPT ![r] = "done"]
    /\ status' = [status EXCEPT ![r] = 400]
    /\ body' = [body EXCEPT ![r] = JsonError(ValidationError(form[r]))]
    /\ UNCHANGED <<meVars, metrics, form, audio, wav_bound, loaded, result, exc, disk, touched>>

\* app.py 16-27
Save(r) ==
    /\ pc[r] = "start"
    /\ ValidationError(form[r]) = ""
    /\ disk' = [disk EXCEPT ![UploadPath(r)] = File(r, form[r], {r})]
    /\ touched' = Touch(UploadPath(r), r)
    /\ pc' = [pc EXCEPT ![r] = "saved"]
    /\ UNCHANGED <<meVars, metrics, form, audio, wav_bound, loaded, result, exc, status, body>>

\* app.py 32: AudioSegment.from_file(filepath) decodes the upload
Convert(r) ==
    /\ pc[r] = "saved"
    /\ disk[UploadPath(r)].kind = "audio"
    /\ audio' = [audio EXCEPT ![r] = disk[UploadPath(r)].owner]
    /\ touched' = Touch(UploadPath(r), r)
    /\ pc' = [pc EXCEPT ![r] = "converted"]
    /\ UNCHANGED <<meVars, metrics, form, wav_bound, loaded, result, exc, status, body, disk>>

\* app.py 32, 38: the upload is no audio and from_file raises
ConvertRaises(r) ==
    /\ pc[r] = "saved"
    /\ disk[UploadPath(r)].kind # "audio"
    /\ exc' = [exc EXCEPT ![r] = "CouldntDecodeError"]
    /\ touched' = Touch(UploadPath(r), r)
    /\ pc' = [pc EXCEPT ![r] = "rm_upload"]
    /\ UNCHANGED <<meVars, metrics, form, audio, wav_bound, loaded, result, status, body, disk>>

\* app.py 33-34: the waveform is written to wav_filepath; a file already
\* there is truncated and written over
Export(r) ==
    /\ pc[r] = "converted"
    /\ wav_bound' = [wav_bound EXCEPT ![r] = TRUE]
    /\ disk' = [disk EXCEPT ![WavPath(r)] = File(audio[r], "audio", @.writers \cup {r})]
    /\ touched' = Touch(WavPath(r), r)
    /\ pc' = [pc EXCEPT ![r] = "exported"]
    /\ UNCHANGED <<meVars, metrics, form, audio, loaded, result, exc, status, body>>

\* app.py 33-34, 38: export raises (the disk is full, say), before the file
\* is opened or with part of it written
ExportRaises(r) ==
    /\ pc[r] = "converted"
    /\ wav_bound' = [wav_bound EXCEPT ![r] = TRUE]
    /\ \E opened \in BOOLEAN :
           IF opened
           THEN /\ disk' = [disk EXCEPT ![WavPath(r)] =
                                File(audio[r], "partial", @.writers \cup {r})]
                /\ touched' = Touch(WavPath(r), r)
           ELSE UNCHANGED <<disk, touched>>
    /\ exc' = [exc EXCEPT ![r] = "ExportError"]
    /\ pc' = [pc EXCEPT ![r] = "rm_upload"]
    /\ UNCHANGED <<meVars, metrics, form, audio, loaded, result, status, body>>

\* app.py 37, wpm.py 23-39: AudioSegment.from_file(audio_file_path)
AnalyzeLoad(r) ==
    /\ pc[r] = "exported"
    /\ disk[WavPath(r)].kind = "audio"
    /\ loaded' = [loaded EXCEPT ![r] = disk[WavPath(r)].owner]
    /\ touched' = Touch(WavPath(r), r)
    /\ pc' = [pc EXCEPT ![r] = "loaded"]
    /\ UNCHANGED <<meVars, metrics, form, audio, wav_bound, result, exc, status, body, disk>>

\* app.py 37, wpm.py 23-27: the file is gone or is no audio; the exception is
\* caught in analyze_audio_metrics and the error text is its return value
AnalyzeLoadFails(r) ==
    /\ pc[r] = "exported"
    /\ disk[WavPath(r)].kind # "audio"
    /\ result' = [result EXCEPT ![r] = LoadErrorResult]
    /\ touched' = IF Exists(disk, WavPath(r)) THEN Touch(WavPath(r), r) ELSE touched
    /\ pc' = [pc EXCEPT ![r] = "rm_upload"]
    /\ UNCHANGED <<meVars, metrics, form, audio, wav_bound, loaded, exc, status, body, disk>>

\* app.py 37, wpm.py 41-89: sr.AudioFile(audio_file_path) reads the path a
\* second time, and the rest of the routine computes the result
AnalyzeTranscribe(r) ==
    /\ pc[r] = "loaded"
    /\ disk[WavPath(r)].kind = "audio"
    /\ result' = [result EXCEPT ![r] = metrics[loaded[r]][disk[WavPath(r)].owner]]
    /\ touched' = Touch(WavPath(r), r)
    /\ pc' = [pc EXCEPT ![r] = "rm_upload"]
    /\ UNCHANGED <<meVars, metrics, form, audio, wav_bound, loaded, exc, status, body, disk>>

\* app.py 37-38, wpm.py 44-51: the file is gone (FileNotFoundError) or is no
\* audio (ValueError); neither is an sr.UnknownValueError or sr.RequestError
AnalyzeTranscribeRaises(r) ==
    /\ pc[r] = "loaded"
    /\ disk[WavPath(r)].kind # "audio"
    /\ exc' = [exc EXCEPT ![r] =
                  IF Exists(disk, WavPath(r)) THEN "ValueError" ELSE "FileNotFoundError"]
    /\ touched' = IF Exists(disk, WavPath(r)) THEN Touch(WavPath(r), r) ELSE touched
    /\ pc' = [pc EXCEPT ![r] = "rm_upload"]
    /\ UNCHANGED <<meVars, metrics, form, audio, wav_bound, loaded, result, status, body, disk>>

\* app.py 40-41 and 47-48: no other request reaches filepath, so the test and
\* the removal are one step
RemoveUpload(r) ==
    /\ pc[r] = "rm_upload"
    /\ IF Exists(disk, UploadPath(r))
       THEN /\ disk' = [disk EXCEPT ![UploadPath(r)] = NoFile]
            /\ touched' = Touch(UploadPath(r), r)
       ELSE UNCHANGED <<disk, touched>>
    /\ pc' = [pc EXCEPT ![r] = "ck_wav"]
    /\ UNCHANGED <<meVars, metrics, form, audio, wav_bound, loaded, result, exc, status, body>>

\* app.py 42 and 49: the test before os.remove(wav_filepath) says remove
CheckWav(r) ==
    /\ pc[r] = "ck_wav"
    /\ ShouldRemoveWav(exc[r] # "", wav_bound[r], Exists(disk, WavPath(r)))
    /\ pc' = [pc EXCEPT ![r] = "rm_wav"]
    /\ UNCHANGED <<meVars, metrics, form, audio, wav_bound, loaded, result, exc, status, body,
                   disk, touched>>

\* app.py 42-44 and 49-53: the test says there is nothing to remove
SkipWav(r) ==
    /\ pc[r] = "ck_wav"
    /\ ~ShouldRemoveWav(exc[r] # "", wav_bound[r], Exists(disk, WavPath(r)))
    /\ Respond(r)
    /\ UNCHANGED <<meVars, metrics, form, audio, wav_bound, loaded, result, exc, disk, touched>>

\* app.py 43-44 and 50-53
RemoveWav(r) ==
    /\ pc[r] = "rm_wav"
    /\ Exists(disk, WavPath(r))
    /\ disk' = [disk EXCEPT ![WavPath(r)] = NoFile]
    /\ touched' = Touch(WavPath(r), r)
    /\ Respond(r)
    /\ UNCHANGED <<meVars, metrics, form, audio, wav_bound, loaded, result, exc>>

\* app.py 43 and 50: the file went away after the test; os.remove raises
\* FileNotFoundError out of the view function
RemoveWavRaises(r) ==
    /\ pc[r] = "rm_wav"
    /\ ~Exists(disk, WavPath(r))
    /\ pc' = [pc EXCEPT ![r] = "done"]
    /\ status' = [status EXCEPT ![r] = 500]
    /\ body' = [body EXCEPT ![r] = InternalServerError]
    /\ UNCHANGED <<meVars, metrics, form, audio, wav_bound, loaded, result, exc, disk, touched>>

HStep(r) ==
    \/ Reject(r)
    \/ Save(r)
    \/ Convert(r)
    \/ ConvertRaises(r)
    \/ Export(r)
    \/ ExportRaises(r)
    \/ AnalyzeLoad(r)
    \/ AnalyzeLoadFails(r)
    \/ AnalyzeTranscribe(r)
    \/ AnalyzeTranscribeRaises(r)
    \/ RemoveUpload(r)
    \/ CheckWav(r)
    \/ SkipWav(r)
    \/ RemoveWav(r)
    \/ RemoveWavRaises(r)

Next == \E r \in Reqs : HStep(r)

Spec == Init /\ [][Next]_vars

(***************************************************************************)
(* Properties of analyze_audio_metrics (under SpecME).                     *)
(***************************************************************************)
MEReturnedDict == mpc = "done" /\ me_result.kind = "dict"

\* the occurrences of phrase in text, compared without regard to case, that
\* start and end on a word boundary
Occurrences(phrase, text) ==
    Cardinality({i \in 1..Len(text) :
        /\ i + Len(phrase) - 1 <= Len(text)
        /\ \A k \in 1..Len(phrase) :
               CharLower(text[i + k - 1]) = CharLower(phrase[k])
        /\ WordBoundary(text, i)
        /\ WordBoundary(text, i + Len(phrase))})

RECURSIVE SumOccurrences(_, _, _)
SumOccurrences(lexicon, text, k) ==
    IF k > Len(lexicon) THEN 0
    ELSE Occurrences(lexicon[k], text) + SumOccurrences(lexicon, text, k + 1)

\* rate = floor(n / x), the quotient taken in the real numbers or in floating
\* point
IsFloorOfQuotient(rate, n, x) ==
    \/ rate = ExactFloorDiv(n, x)
    \/ rate = FFloor(FDiv(FFromInt(n), x))

\* C4: when the transcriber fails (no speech recognised, or the service
\* request errors) the call still returns a full record, and in it the word
\* count, the filler count and both rates are 0.
C4_TranscriberFailureZeroCounts ==
    (mpc = "done" /\ in_clip.decodable /\ in_clip.speech.kind # "ok")
        => /\ me_result.kind = "dict"
           /\ me_result.total_word_count = 0
           /\ me_result.filler_count = 0
           /\ me_result.rate_including_fillers_wpm = 0
           /\ me_result.rate_excluding_fillers_wpm = 0

\* C6: rate_including_fillers_wpm is a non-negative integer, equal to
\* floor(total_word_count * 60 / speaking_time_sec) when the speaking time is
\* positive and to 0 otherwise.
C6_RateIncludingFillers ==
    MEReturnedDict =>
        LET speaking == me_result.speaking_time_sec_excluding_pauses
            rate     == me_result.rate_including_fillers_wpm
        IN  /\ rate >= 0
            /\ IF speaking.sgn > 0
               THEN IsFloorOfQuotient(rate, me_result.total_word_count * 60, speaking)
               ELSE rate = 0

\* C7: filler_count is the sum over the phrases of the lexicon of the
\* case-insensitive occurrences of the phrase on word boundaries; "umbrella
\* is nice" has none of "um", "um, I like it" has 2, and one "you know" adds
\* 1 to filler_count and 2 to total_word_count.
C7_FillerCountIsOccurrences ==
    mpc \in {"counted", "done"} /\ in_clip.decodable =>
        /\ filler_count = SumOccurrences(filler_list, transcript, 1)
        /\ (filler_list = DefaultFillerList /\ transcript = TUmbrella
               => filler_count = 0)
        /\ (filler_list = DefaultFillerList /\ transcript = TUmILikeIt
               => filler_count = 2)
        /\ (filler_list = DefaultFillerList /\ transcript = TYouKnow
               => filler_count = 1 /\ total_word_count = 2)

\* C8: actual_speaking_duration_sec = max(0, speaking_time_sec - filler_count
\* * filler_avg_duration); rate_excluding_fillers_wpm = floor((total_word_count
\* - filler_count) * 60 / actual_speaking_duration_sec) when that duration is
\* positive and 0 otherwise; with more fillers than words and a positive
\* duration the rate is negative.
C8_RateExcludingFillers ==
    MEReturnedDict =>
        LET speaking == me_result.speaking_time_sec_excluding_pauses
            words    == me_result.total_word_count
            fillers  == me_result.filler_count
            actual   == me_result.actual_speaking_duration_sec_excluding_fillers
            rate     == me_result.rate_excluding_fillers_wpm
            diff     == FSub(speaking, FMul(FFromInt(fillers), FillerAvgDuration))
        IN  /\ actual = (IF diff.sgn > 0 THEN diff ELSE FZero)
            /\ IF actual.sgn > 0
               THEN IsFloorOfQuotient(rate, (words - fillers) * 60, actual)
               ELSE rate = 0
            /\ (fillers > words /\ actual.sgn > 0 => rate < 0)

\* C10: with the default filler lexicon filler_count <= total_word_count for
\* every transcript, so rate_excluding_fillers_wpm is never negative; a
\* negative rate needs a caller-supplied lexicon.
C10_DefaultLexiconNeverNegative ==
    /\ (mpc \in {"counted", "done"} /\ in_clip.decodable
           /\ filler_list = DefaultFillerList)
          => filler_count <= total_word_count
    /\ (MEReturnedDict /\ me_result.rate_excluding_fillers_wpm < 0)
          => filler_list # DefaultFillerList

\* every word of the transcript is a filler of the default lexicon, and the
\* rates have been computed over a positive duration
C10_Witness ==
    /\ MEReturnedDict
    /\ filler_list = DefaultFillerList
    /\ me_result.filler_count > 0
    /\ me_result.filler_count = me_result.total_word_count
    /\ me_result.actual_speaking_duration_sec_excluding_fillers.sgn > 0
    /\ me_result.rate_excluding_fillers_wpm = 0

(***************************************************************************)
(* Properties of the handler (under Spec).                                 *)
(***************************************************************************)
Validated(r) == ValidationError(form[r]) = ""

\* C1: when the handler returns for a request that passed validation, with
\* 200 or with 500, neither the upload it saved nor a waveform it wrote is on
\* disk.
C1_TempFilesRemoved ==
    \A r \in Reqs :
        (pc[r] = "done" /\ Validated(r))
            => /\ status[r] \in {200, 500}
               /\ ~Exists(disk, UploadPath(r))
               /\ r \notin disk[WavPath(r)].writers

\* one request has returned 200 with its metrics, another 500 after it had
\* reached the export
C1_Witness ==
    \E a \in Reqs, b \in Reqs :
        /\ pc[a] = "done" /\ status[a] = 200 /\ result[a].kind = "dict"
        /\ pc[b] = "done" /\ status[b] = 500 /\ wav_bound[b]

\* C2: no two requests ever write to, read from or delete the same temporary
\* file path.
C2_NoSharedTempPath ==
    \A q \in Paths : Cardinality(touched[q]) <= 1

\* C3: when analyze_audio_metrics cannot decode its clip no result is
\* produced and the response is 500 with {"error": message}, never 200.
C3_DecodeFailureIs500 ==
    \A r \in Reqs :
        (pc[r] = "done" /\ result[r] = LoadErrorResult)
            => status[r] = 500 /\ body[r].kind = "json"

\* C5: a request with no file part gets 400 "No file part in the request",
\* one with an empty filename 400 "No file selected"; neither has created a
\* file or touched a path, nor called the transcoder or the metrics routine.
C5_ValidationRejects ==
    \A r \in Reqs :
        (pc[r] = "done" /\ form[r] \in {"nofile", "emptyname"})
            => /\ status[r] = 400
               /\ body[r] = JsonError(IF form[r] = "nofile"
                                      THEN "No file part in the request"
                                      ELSE "No file selected")
               /\ \A q \in Paths : r \notin touched[q]
               /\ \A q \in Paths : r \notin disk[q].writers
               /\ audio[r] = 0 /\ ~wav_bound[r]
               /\ loaded[r] = 0 /\ result[r] = NoResult

\* both kinds of invalid request have been answered
C5_Witness ==
    \E a \in Reqs, b \in Reqs :
        /\ form[a] = "nofile" /\ pc[a] = "done" /\ status[a] = 400
        /\ form[b] = "emptyname" /\ pc[b] = "done" /\ status[b] = 400

\* C9: a request that returns 200 returns the metrics of the waveform
\* transcoded from its own upload, and none returns 500 because another
\* request overwrote or removed the waveform file.
C9_OwnWaveform ==
    \A r \in Reqs :
        pc[r] = "done" =>
            /\ status[r] = 200 => body[r] = metrics[r][r]
            /\ status[r] = 500 =>
                   body[r] \in {JsonError("CouldntDecodeError"),
                                JsonError("ExportError")}

=============================================================================
